---- MODULE Spec2Model ----
(***************************************************************************)
(* RedisCache of drizzle-redis: a Drizzle ORM cache kept in Redis hashes   *)
(* and sets.  The model holds the Redis keyspace (hashes with per-field    *)
(* TTL, sets), the cache instance's configuration, and for every caller    *)
(* the pipeline a put has sent and the replies it has received so far.     *)
(* A pipeline is executed by the server one command at a time; the two Lua *)
(* scripts (getByTagScript, onMutateScript) are executed as single steps.  *)
(***************************************************************************)
EXTENDS Integers, Sequences, FiniteSets, TLC

(***************************************************************************)
(* Bounds of the model.                                                    *)
(***************************************************************************)
NumKeys == 2
NumTables == 2
NumValues == 2
NumClients == 1
MaxEx == 3
MaxCalls == 3

(***************************************************************************)
(* Input universes.  Cache keys and tags share one namespace (the `key`    *)
(* argument of get/put is the tag when isTag is true).                     *)
(***************************************************************************)
AllKeys == <<"k1", "k2", "k3", "k4">>
Keys == {AllKeys[i] : i \in 1..NumKeys}

AllTables == <<"users", "orders", "products", "items">>
TableNames == {AllTables[i] : i \in 1..NumTables}

\* Array.prototype.sort() without a comparator orders strings by UTF-16 code
\* units; this is that order on the table names of the model.
CodeUnitOrder == <<"items", "orders", "products", "users">>
Rank(s) == CHOOSE i \in 1..Len(CodeUnitOrder) : CodeUnitOrder[i] = s
Rank2(k) == CHOOSE i \in 1..Len(AllKeys) : AllKeys[i] = k
StrLess(a, b) == Rank(a) < Rank(b)

\* Lists of distinct table names, in every order.
TableLists ==
  {t \in UNION {[1..n -> TableNames] : n \in 0..NumTables} :
     \A i, j \in DOMAIN t : i # j => t[i] # t[j]}

Clients == 1..NumClients

(***************************************************************************)
(* JavaScript values and JSON.  A value is a tagged literal; `undefined`   *)
(* is the not-found result of get.                                         *)
(***************************************************************************)
JsUndefined == [type |-> "undefined", lit |-> ""]
JsNull == [type |-> "null", lit |-> ""]
JsNumber(n) == [type |-> "number", lit |-> n]
JsString(s) == [type |-> "string", lit |-> s]
JsArray(items) == [type |-> "array", lit |-> items]
JsSyntaxError == [type |-> "SyntaxError", lit |-> ""]

AllValues == <<JsArray("1"), JsNull, JsNumber("0"), JsString(""), JsArray(""),
               JsArray("{\"id\":1}")>>
Values == {AllValues[i] : i \in 1..NumValues}

\* Faulty variant: String(response) in place of JSON.stringify(response).
JSONstringify_ToString(v) ==
  CASE v.type = "null" -> "null"
    [] v.type = "number" -> v.lit
    [] v.type = "string" -> v.lit
    [] v.type = "array" -> v.lit

JSONstringify(v) ==
  CASE v.type = "null" -> "null"
    [] v.type = "number" -> v.lit
    [] v.type = "string" -> "\"" \o v.lit \o "\""
    [] v.type = "array" -> "[" \o v.lit \o "]"

JSONparse(s) ==
  CASE s = "null" -> JsNull
    [] s = "0" -> JsNumber("0")
    [] s = "\"\"" -> JsString("")
    [] s = "[]" -> JsArray("")
    [] s = "[1]" -> JsArray("1")
    [] s = "[{\"id\":1}]" -> JsArray("{\"id\":1}")
    [] OTHER -> JsSyntaxError

(***************************************************************************)
(* Key naming.                                                             *)
(***************************************************************************)
prefix == "drizzle-redis"
compositeTableSetPrefix == "__CTS__"
compositeTablePrefix == "__CT__"
tagsMapKey == "__tagsMap__"
nonAutoInvalidateTablePrefix == "__nonAutoInvalidate__"

addPrefix(key) == prefix \o ":" \o key

addTablePrefix(table) == addPrefix(compositeTableSetPrefix \o table)

\* tables.sort(): insertion of each element into the sorted prefix.
RECURSIVE Insert(_, _)
Insert(x, s) ==
  IF s = <<>> THEN <<x>>
  ELSE IF StrLess(s[1], x) THEN <<s[1]>> \o Insert(x, Tail(s))
  ELSE <<x>> \o s

\* Faulty variant: the table list is joined as given, without tables.sort().
Sort_AsGiven(s) == s

RECURSIVE Sort(_)
Sort(s) == IF s = <<>> THEN <<>> ELSE Insert(s[1], Sort(Tail(s)))

\* tables.join(",")
RECURSIVE Join(_)
Join(s) ==
  IF s = <<>> THEN ""
  ELSE IF Len(s) = 1 THEN s[1]
  ELSE s[1] \o "," \o Join(Tail(s))

getCompositeKey(tables) == addPrefix(compositeTablePrefix \o Join(Sort(tables)))

(***************************************************************************)
(* The Redis commands the cache uses, as functions of the keyspace.        *)
(* hashes: key -> field -> [value, ttl]; sets: key -> set of members.      *)
(* A key exists exactly when it is in the DOMAIN; Redis removes a hash or  *)
(* a set when its last element goes.  A reply of nil is the empty set.     *)
(***************************************************************************)
NoExpiry == -1

Nil == {}

Without(f, x) == [y \in DOMAIN f \ {x} |-> f[y]]

HasField(h, key, field) == key \in DOMAIN h /\ field \in DOMAIN h[key]

HGET(h, key, field) ==
  IF HasField(h, key, field) THEN {h[key][field].value} ELSE Nil

\* HSET writes the field and discards any expiry the field had.
HSET(h, key, field, value) ==
  LET entry == [value |-> value, ttl |-> NoExpiry] IN
  IF key \in DOMAIN h
  THEN [h EXCEPT ![key] = (field :> entry) @@ h[key]]
  ELSE (key :> (field :> entry)) @@ h

HDEL1(h, key, field) ==
  IF ~HasField(h, key, field) THEN h
  ELSE IF DOMAIN h[key] = {field} THEN Without(h, key)
  ELSE [h EXCEPT ![key] = Without(h[key], field)]

RECURSIVE HDEL(_, _, _)
HDEL(h, key, fields) ==
  IF fields = <<>> THEN h
  ELSE HDEL(HDEL1(h, key, fields[1]), key, Tail(fields))

\* HEXPIRE key seconds [NX|XX|GT|LT] FIELDS 1 field
HexpireCondition(cur, seconds, opt) ==
  CASE opt = "" -> TRUE
    [] opt = "NX" -> cur = NoExpiry
    [] opt = "XX" -> cur # NoExpiry
    [] opt = "GT" -> cur # NoExpiry /\ seconds > cur
    [] opt = "LT" -> cur = NoExpiry \/ seconds < cur

HEXPIRE(h, key, field, seconds, opt) ==
  IF ~HasField(h, key, field) THEN h
  ELSE IF ~HexpireCondition(h[key][field].ttl, seconds, opt) THEN h
  ELSE IF seconds <= 0 THEN HDEL1(h, key, field)
  ELSE [h EXCEPT ![key][field].ttl = seconds]

SADD(s, key, member) ==
  IF key \in DOMAIN s
  THEN [s EXCEPT ![key] = @ \cup {member}]
  ELSE (key :> {member}) @@ s

SUNION(s, keys) ==
  UNION {s[k] : k \in {keys[i] : i \in DOMAIN keys} \cap DOMAIN s}

\* DEL removes keys of any type.
DEL(f, keys) == [k \in DOMAIN f \ keys |-> f[k]]

\* redis.call raises an error for a command that is given no argument list
\* (HDEL without fields, SUNION or DEL without keys).
WrongArity(args) == args = <<>>

\* One second passes: fields whose time is up are removed.
Expired(h, key) == {f \in DOMAIN h[key] : h[key][f].ttl = 1}
AfterSecond(h) ==
  [key \in {k \in DOMAIN h : Expired(h, k) # DOMAIN h[k]} |->
     [f \in DOMAIN h[key] \ Expired(h, key) |->
        IF h[key][f].ttl = NoExpiry THEN h[key][f]
        ELSE [h[key][f] EXCEPT !.ttl = @ - 1]]]

(***************************************************************************)
(* The two Lua scripts.                                                    *)
(***************************************************************************)
TheOne(S) == CHOOSE x \in S : TRUE

\* Faulty variant: the script stops after the first hop and returns the group
\* name it found in the tags map.
getByTagScript_FirstHopOnly(h, tagsMap, tag) == HGET(h, tagsMap, tag)

\* getByTagScript: KEYS[1] = tags map key, ARGV[1] = tag.
getByTagScript(h, tagsMap, tag) ==
  LET compositeTableName == HGET(h, tagsMap, tag) IN
  IF compositeTableName = Nil THEN Nil
  ELSE HGET(h, TheOne(compositeTableName), tag)

\* Faulty variant: for a mapped tag the script deletes the whole group hash (DEL)
\* instead of the tag's field (HDEL).
RECURSIVE TagLoop_DeletesGroup(_, _, _)
TagLoop_DeletesGroup(h, tagsMap, tags) ==
  IF tags = <<>> THEN h
  ELSE LET tag == tags[1]
           compositeTableName == HGET(h, tagsMap, tag)
           h1 == IF tag # "" /\ compositeTableName # Nil
                 THEN DEL(h, compositeTableName)
                 ELSE h
       IN TagLoop_DeletesGroup(h1, tagsMap, Tail(tags))

\* The loop `for _, tag in ipairs(tags)` of onMutateScript.
RECURSIVE TagLoop(_, _, _)
TagLoop(h, tagsMap, tags) ==
  IF tags = <<>> THEN h
  ELSE LET tag == tags[1]
           compositeTableName == HGET(h, tagsMap, tag)
           h1 == IF tag # "" /\ compositeTableName # Nil
                 THEN HDEL1(h, TheOne(compositeTableName), tag)
                 ELSE h
       IN TagLoop(h1, tagsMap, Tail(tags))

\* Faulty variant: the script deletes the membership sets but not the group hashes
\* they name.
onMutateScript_KeepsGroups(h, s, tagsMap, tables, tags) ==
  LET h1 == IF Len(tags) > 0
            THEN HDEL(TagLoop(h, tagsMap, tags), tagsMap, tags)
            ELSE h
      keysToDelete == {tables[i] : i \in DOMAIN tables}
  IN IF Len(tables) > 0
     THEN [hashes |-> DEL(h1, keysToDelete), sets |-> DEL(s, keysToDelete),
           err |-> FALSE]
     ELSE [hashes |-> h1, sets |-> s, err |-> FALSE]

\* Faulty variant: the script handles the tables and skips the tags.
onMutateScript_IgnoresTags(h, s, tagsMap, tables, tags) ==
  LET keysToDelete == SUNION(s, tables) \cup {tables[i] : i \in DOMAIN tables}
  IN IF Len(tables) > 0
     THEN [hashes |-> DEL(h, keysToDelete), sets |-> DEL(s, keysToDelete),
           err |-> FALSE]
     ELSE [hashes |-> h, sets |-> s, err |-> FALSE]

\* Faulty variant: the table part deletes every hash of the cache (a DEL by key
\* pattern) instead of the groups the membership sets name.
onMutateScript_DeletesEveryHash(h, s, tagsMap, tables, tags) ==
  LET h1 == IF Len(tags) > 0
            THEN HDEL(TagLoop(h, tagsMap, tags), tagsMap, tags)
            ELSE h
      keysToDelete == {tables[i] : i \in DOMAIN tables}
  IN IF Len(tables) > 0
     THEN [hashes |-> DEL(h1, DOMAIN h1 \ {tagsMap}),
           sets |-> DEL(s, keysToDelete), err |-> FALSE]
     ELSE [hashes |-> h1, sets |-> s, err |-> FALSE]

\* Faulty variant: the script without its `#tags > 0` and `#tables > 0` guards.
onMutateScript_Unguarded(h, s, tagsMap, tables, tags) ==
  LET h1 == HDEL(TagLoop(h, tagsMap, tags), tagsMap, tags)
      keysToDelete == SUNION(s, tables) \cup {tables[i] : i \in DOMAIN tables}
  IN IF WrongArity(tags) THEN [hashes |-> h, sets |-> s, err |-> TRUE]
     ELSE [hashes |-> DEL(h1, keysToDelete), sets |-> DEL(s, keysToDelete),
           err |-> WrongArity(tables)]

\* Faulty variant: the table part deletes the group hashes and leaves the
\* membership sets of the given tables in place.
onMutateScript_KeepsSets(h, s, tagsMap, tables, tags) ==
  LET h1 == IF Len(tags) > 0
            THEN HDEL(TagLoop(h, tagsMap, tags), tagsMap, tags)
            ELSE h
      compositeTableNames == SUNION(s, tables)
  IN IF Len(tables) > 0
     THEN [hashes |-> DEL(h1, compositeTableNames), sets |-> s, err |-> FALSE]
     ELSE [hashes |-> h1, sets |-> s, err |-> FALSE]

\* Faulty variant: the table part also removes the tags-map fields that point to
\* the groups it deletes.
onMutateScript_PrunesTagsMap(h, s, tagsMap, tables, tags) ==
  LET h1 == IF Len(tags) > 0
            THEN HDEL(TagLoop(h, tagsMap, tags), tagsMap, tags)
            ELSE h
      compositeTableNames == SUNION(s, tables)
      keysToDelete == compositeTableNames \cup {tables[i] : i \in DOMAIN tables}
      h2 == DEL(h1, keysToDelete)
      kept == IF tagsMap \in DOMAIN h2
              THEN {t \in DOMAIN h2[tagsMap] :
                      h2[tagsMap][t].value \notin compositeTableNames}
              ELSE {}
      h3 == IF tagsMap \notin DOMAIN h2 THEN h2
            ELSE IF kept = {} THEN Without(h2, tagsMap)
            ELSE [h2 EXCEPT ![tagsMap] = [t \in kept |-> h2[tagsMap][t]]]
  IN IF Len(tables) > 0
     THEN [hashes |-> h3, sets |-> DEL(s, keysToDelete), err |-> FALSE]
     ELSE [hashes |-> h1, sets |-> s, err |-> FALSE]

\* onMutateScript: KEYS[1] = tags map key, KEYS[2..] = membership-set keys,
\* ARGV = tags.  An error raised by redis.call ends the script and is the
\* script's reply; what the script wrote before it stays written.
onMutateScript(h, s, tagsMap, tables, tags) ==
  LET tagPart ==
        IF Len(tags) > 0
        THEN [hashes |-> HDEL(TagLoop(h, tagsMap, tags), tagsMap, tags),
              err |-> WrongArity(tags)]
        ELSE [hashes |-> h, err |-> FALSE]
      h1 == tagPart.hashes
      compositeTableNames == SUNION(s, tables)
      keysToDelete == compositeTableNames \cup {tables[i] : i \in DOMAIN tables}
  IN IF tagPart.err THEN [hashes |-> h, sets |-> s, err |-> TRUE]
     ELSE IF Len(tables) > 0
     THEN [hashes |-> DEL(h1, keysToDelete), sets |-> DEL(s, keysToDelete),
           err |-> WrongArity(tables)]
     ELSE [hashes |-> h1, sets |-> s, err |-> FALSE]

(***************************************************************************)
(* Configuration.  An optional value is a set with at most one element.    *)
(***************************************************************************)
Truthy(opt) == opt # {} /\ TheOne(opt) # 0

toInternalConfig(config) ==
  IF config # {}
  THEN [seconds |-> IF TheOne(config).ex # {} THEN TheOne(TheOne(config).ex) ELSE 1,
        hexOptions |-> TheOne(config).hexOptions]
  ELSE [seconds |-> 1, hexOptions |-> ""]

\* Faulty variant: the per-call ex is ignored.
ttlSeconds_IgnoresCallConfig(config, internal) == internal.seconds

ttlSeconds(config, internal) ==
  IF config # {} /\ Truthy(TheOne(config).ex)
  THEN TheOne(TheOne(config).ex)
  ELSE internal.seconds

hexOptions(config, internal) ==
  IF config # {} /\ TheOne(config).hexOptions # ""
  THEN TheOne(config).hexOptions
  ELSE internal.hexOptions

(***************************************************************************)
(* The commands put queues on its pipeline.                                *)
(***************************************************************************)
Cmd(name, key, field, value, seconds, opt) ==
  [cmd |-> name, key |-> key, field |-> field, value |-> value,
   seconds |-> seconds, opt |-> opt]

hset(key, field, value) == Cmd("HSET", key, field, value, 0, "")
hexpire(key, field, seconds, opt) == Cmd("HEXPIRE", key, field, "", seconds, opt)
sadd(key, member) == Cmd("SADD", key, "", member, 0, "")

\* Faulty variant: the group name is added to the membership set of the first
\* table only, not to the set of every table of the list.
putPipeline_IndexesFirstTable(key, response, tables, isTag, config, internal) ==
  LET isAutoInvalidate == Len(tables) # 0
      ttl == ttlSeconds(config, internal)
      opt == hexOptions(config, internal)
      serializedResponse == JSONstringify(response)
      nonAutoInvalidateKey == addPrefix(nonAutoInvalidateTablePrefix)
      tagsMap == addPrefix(tagsMapKey)
      compositeKey == getCompositeKey(tables)
      sorted == Sort(tables)
  IN IF ~isAutoInvalidate
     THEN (IF isTag
           THEN <<hset(tagsMap, key, nonAutoInvalidateKey),
                  hexpire(tagsMap, key, ttl, opt)>>
           ELSE <<>>)
          \o <<hset(nonAutoInvalidateKey, key, serializedResponse),
               hexpire(nonAutoInvalidateKey, key, ttl, opt)>>
     ELSE <<hset(compositeKey, key, serializedResponse),
            hexpire(compositeKey, key, ttl, opt)>>
          \o (IF isTag
              THEN <<hset(tagsMap, key, compositeKey),
                     hexpire(tagsMap, key, ttl, opt)>>
              ELSE <<>>)
          \o <<sadd(addTablePrefix(sorted[1]), compositeKey)>>

putPipeline(key, response, tables, isTag, config, internal) ==
  LET isAutoInvalidate == Len(tables) # 0
      ttl == ttlSeconds(config, internal)
      opt == hexOptions(config, internal)
      serializedResponse == JSONstringify(response)
      nonAutoInvalidateKey == addPrefix(nonAutoInvalidateTablePrefix)
      tagsMap == addPrefix(tagsMapKey)
      compositeKey == getCompositeKey(tables)
      sorted == Sort(tables)
  IN IF ~isAutoInvalidate
     THEN (IF isTag
           THEN <<hset(tagsMap, key, nonAutoInvalidateKey),
                  hexpire(tagsMap, key, ttl, opt)>>
           ELSE <<>>)
          \o <<hset(nonAutoInvalidateKey, key, serializedResponse),
               hexpire(nonAutoInvalidateKey, key, ttl, opt)>>
     ELSE <<hset(compositeKey, key, serializedResponse),
            hexpire(compositeKey, key, ttl, opt)>>
          \o (IF isTag
              THEN <<hset(tagsMap, key, compositeKey),
                     hexpire(tagsMap, key, ttl, opt)>>
              ELSE <<>>)
          \o [i \in 1..Len(sorted) |-> sadd(addTablePrefix(sorted[i]), compositeKey)]

\* Faulty variant: get tests the parsed value for truthiness instead of testing the
\* reply for null.
RedisCache_get_Falsy(h, key, tables, isTag, isAutoInvalidate) ==
  LET result ==
        IF ~isAutoInvalidate
        THEN HGET(h, addPrefix(nonAutoInvalidateTablePrefix), key)
        ELSE IF isTag
        THEN getByTagScript(h, addPrefix(tagsMapKey), key)
        ELSE HGET(h, getCompositeKey(tables), key)
      value == IF result = Nil THEN JsUndefined ELSE JSONparse(TheOne(result))
  IN IF value.type \in {"null", "number", "string"} /\ value.lit \in {"", "0"}
     THEN JsUndefined
     ELSE value

\* Faulty variant: get without its `!isAutoInvalidate` branch; the flag is
\* ignored and the lookup goes by tag or by tables.
RedisCache_get_IgnoresFlag(h, key, tables, isTag, isAutoInvalidate) ==
  LET result ==
        IF isTag
        THEN getByTagScript(h, addPrefix(tagsMapKey), key)
        ELSE HGET(h, getCompositeKey(tables), key)
  IN IF result = Nil THEN JsUndefined ELSE JSONparse(TheOne(result))

\* RedisCache.get as a function of the keyspace.
RedisCache_get(h, key, tables, isTag, isAutoInvalidate) ==
  LET result ==
        IF ~isAutoInvalidate
        THEN HGET(h, addPrefix(nonAutoInvalidateTablePrefix), key)
        ELSE IF isTag
        THEN getByTagScript(h, addPrefix(tagsMapKey), key)
        ELSE HGET(h, getCompositeKey(tables), key)
  IN IF result = Nil THEN JsUndefined ELSE JSONparse(TheOne(result))

\* onMutate's normalisation of params.tags / params.tables: an array is
\* taken as is, a truthy single value becomes a one-element array, anything
\* else (undefined, the empty string) the empty array.  A table is given
\* by name or as a Table object.
TruthyString(x) == x # ""
TruthyTable(x) == x.isTable \/ x.name # ""

NormalizeTags(p) ==
  IF p.shape = "array" THEN p.items
  ELSE IF p.shape = "single" /\ TruthyString(p.items[1]) THEN <<p.items[1]>>
  ELSE <<>>

\* Faulty variant: only an array of tables is taken; a single table (a name or
\* a Table object) is dropped.
NormalizeTables_ArraysOnly(p) ==
  IF p.shape = "array" THEN p.items ELSE <<>>

NormalizeTables(p) ==
  IF p.shape = "array" THEN p.items
  ELSE IF p.shape = "single" /\ TruthyTable(p.items[1]) THEN <<p.items[1]>>
  ELSE <<>>

(***************************************************************************)
(* State.                                                                  *)
(***************************************************************************)
VARIABLES
  hashes,            \* Redis hashes: key -> field -> [value, ttl]
  sets,              \* Redis sets: key -> members
  serverHasHexpire,  \* the server knows HEXPIRE (Redis 7.4+)
  options,           \* options.config given to the constructor
  internalConfig,    \* this.internalConfig
  call,              \* per caller: the put it is awaiting
  pipeline,          \* per caller: commands sent and not yet executed
  replies,           \* per caller: [err, result] replies received so far
  ret,               \* what the call that settled last returned or threw
  calls              \* number of put and onMutate calls made so far

vars == <<hashes, sets, serverHasHexpire, options, internalConfig, call,
          pipeline, replies, ret, calls>>

Empty == [x \in {} |-> {}]

NoCall == [op |-> "none", key |-> "", response |-> JsUndefined, tables |-> <<>>,
           isTag |-> FALSE, config |-> {}]

\* A rejected promise: the error the caller catches.
JsReplyError == [type |-> "ReplyError", lit |-> ""]

\* CacheConfig values: ex is optional, hexOptions "" when not given.
HexModes == {"", "NX", "XX", "GT", "LT"}
CacheConfigs(exs, modes) == [ex : {{}} \cup {{n} : n \in exs}, hexOptions : modes]
OptionalConfigs(exs, modes) == {{}} \cup {{cfg} : cfg \in CacheConfigs(exs, modes)}

Pending(c) == call[c].op # "none"
Quiet == \A c \in Clients : ~Pending(c)

InitWith(ctorConfigs, servers) ==
  /\ hashes = Empty
  /\ sets = Empty
  /\ serverHasHexpire \in servers
  /\ options \in ctorConfigs
  /\ internalConfig = toInternalConfig(options)
  /\ call = [c \in Clients |-> NoCall]
  /\ pipeline = [c \in Clients |-> <<>>]
  /\ replies = [c \in Clients |-> <<>>]
  /\ ret = JsUndefined
  /\ calls = 0

(***************************************************************************)
(* Operations.                                                             *)
(***************************************************************************)
\* get: one HGET or one run of getByTagScript.
Get(key, tables, isTag, isAutoInvalidate) ==
  /\ ret' = RedisCache_get(hashes, key, tables, isTag, isAutoInvalidate)
  /\ UNCHANGED <<hashes, sets, serverHasHexpire, options, internalConfig, call,
                 pipeline, replies, calls>>

\* put up to pipeline.exec(): the batch is on its way to the server.
Put(c, key, response, tables, isTag, config) ==
  /\ ~Pending(c)
  /\ calls < MaxCalls
  /\ calls' = calls + 1
  /\ call' = [call EXCEPT ![c] = [op |-> "put", key |-> key, response |-> response,
                                  tables |-> tables, isTag |-> isTag,
                                  config |-> config]]
  /\ pipeline' = [pipeline EXCEPT ![c] =
                    putPipeline(key, response, tables, isTag, config, internalConfig)]
  /\ replies' = [replies EXCEPT ![c] = <<>>]
  /\ UNCHANGED <<hashes, sets, serverHasHexpire, options, internalConfig, ret>>

\* The server executes the next command of c's batch and replies.  A
\* command the server does not know is answered with an error and the batch
\* goes on.  exec() resolves with the array of replies when the last one is
\* in; put awaits it, drops the array and returns.
ServerError(cmd) == cmd.cmd = "HEXPIRE" /\ ~serverHasHexpire

execResult(rs) == JsUndefined

Execute(c) ==
  /\ pipeline[c] # <<>>
  /\ LET cmd == Head(pipeline[c])
         rs == Append(replies[c], [err |-> ServerError(cmd)])
         last == Len(pipeline[c]) = 1
     IN
     /\ hashes' =
          IF ServerError(cmd) THEN hashes
          ELSE IF cmd.cmd = "HSET" THEN HSET(hashes, cmd.key, cmd.field, cmd.value)
          ELSE IF cmd.cmd = "HEXPIRE"
          THEN HEXPIRE(hashes, cmd.key, cmd.field, cmd.seconds, cmd.opt)
          ELSE hashes
     /\ sets' = IF cmd.cmd = "SADD" THEN SADD(sets, cmd.key, cmd.value) ELSE sets
     /\ replies' = [replies EXCEPT ![c] = IF last THEN <<>> ELSE rs]
     /\ call' = [call EXCEPT ![c] = IF last THEN NoCall ELSE @]
     /\ ret' = IF last THEN execResult(rs) ELSE ret
  /\ pipeline' = [pipeline EXCEPT ![c] = Tail(@)]
  /\ UNCHANGED <<serverHasHexpire, options, internalConfig, calls>>

\* onMutate: normalises tags and tables, then one run of onMutateScript.
\* is(table, Table) ? getTableName(table) : table
tableName(table) == table.name

OnMutate(params) ==
  /\ calls < MaxCalls
  /\ calls' = calls + 1
  /\ LET tags == NormalizeTags(params.tags)
         tables == NormalizeTables(params.tables)
         tableNames == [i \in DOMAIN tables |-> tableName(tables[i])]
         compositeTableSets == [i \in DOMAIN tableNames |-> addTablePrefix(tableNames[i])]
         r == onMutateScript(hashes, sets, addPrefix(tagsMapKey), compositeTableSets, tags)
     IN /\ hashes' = r.hashes
        /\ sets' = r.sets
        /\ ret' = IF r.err THEN JsReplyError ELSE JsUndefined
  /\ UNCHANGED <<serverHasHexpire, options, internalConfig, call, pipeline, replies>>

\* A second passes on the server.
Tick ==
  /\ \E key \in DOMAIN hashes : \E f \in DOMAIN hashes[key] : hashes[key][f].ttl # NoExpiry
  /\ hashes' = AfterSecond(hashes)
  /\ UNCHANGED <<sets, serverHasHexpire, options, internalConfig, call, pipeline,
                 replies, ret, calls>>

(***************************************************************************)
(* Inputs of onMutate.                                                     *)
(***************************************************************************)
Undefined == [shape |-> "undefined", items |-> <<>>]
Single(x) == [shape |-> "single", items |-> <<x>>]
Array(xs) == [shape |-> "array", items |-> xs]

ByName(t) == [isTable |-> FALSE, name |-> t]
TableObject(t) == [isTable |-> TRUE, name |-> t]

\* Lists of distinct keys (tags), in every order.
TagLists ==
  {t \in UNION {[1..n -> Keys] : n \in 0..NumKeys} :
     \A i, j \in DOMAIN t : i # j => t[i] # t[j]}

ByNames(tables) == [i \in DOMAIN tables |-> ByName(tables[i])]

\* { tags: string[], tables: string[] }, either of them possibly absent.
ListParams(tagLists, tableLists) ==
  [tags : {Undefined} \cup {Array(t) : t \in tagLists},
   tables : {Undefined} \cup {Array(ByNames(t)) : t \in tableLists}]

SortedTableLists == {t \in TableLists : Sort(t) = t}
SortedTagLists == {t \in TagLists : \A i, j \in DOMAIN t : i < j => Rank2(t[i]) < Rank2(t[j])}

\* Tables given by name or as Table objects, in every mix.
Handles(tables) ==
  {h \in [DOMAIN tables -> {ByName(t) : t \in TableNames} \cup
                           {TableObject(t) : t \in TableNames}] :
     \A i \in DOMAIN tables : h[i].name = tables[i]}

\* { tags: string | string[], tables: Table | string | Table[] | string[] }
MixedParams(tagLists, tableLists) ==
  [tags : {Undefined} \cup {Single(t[1]) : t \in {l \in tagLists : Len(l) = 1}}
            \cup {Array(t) : t \in tagLists},
   tables : {Undefined}
            \cup UNION {{Single(h[1]) : h \in Handles(t)} :
                          t \in {l \in tableLists : Len(l) = 1}}
            \cup UNION {{Array(h) : h \in Handles(t)} : t \in tableLists}]

(***************************************************************************)
(* Specifications.  A domain D names the inputs the callers draw from:     *)
(* keys, values, tableLists, callConfigs, ctorConfigs, servers, params,    *)
(* and sequential (every call is awaited before the next one starts and    *)
(* no second ends while a batch is being executed).                        *)
(***************************************************************************)
InitD(D) == InitWith(D.ctorConfigs, D.servers)

NextD(D) ==
  \/ \E key \in D.keys, tables \in D.tableLists, isTag \in BOOLEAN, isAuto \in BOOLEAN :
       /\ D.sequential => Quiet
       /\ Get(key, tables, isTag, isAuto)
  \/ \E c \in Clients, key \in D.keys, response \in D.values, tables \in D.tableLists,
        isTag \in BOOLEAN, config \in D.callConfigs :
       /\ D.sequential => Quiet
       /\ Put(c, key, response, tables, isTag, config)
  \/ \E c \in Clients : Execute(c)
  \/ \E params \in D.params :
       /\ D.sequential => Quiet
       /\ OnMutate(params)
  \/ (D.sequential => Quiet) /\ Tick

\* Concurrent callers: the commands of a put's batch interleave freely with
\* the other callers' gets and invalidations and with the clock.
ConcurrentDomain ==
  [keys |-> Keys, values |-> {AllValues[1]}, tableLists |-> TableLists,
   callConfigs |-> {{}}, ctorConfigs |-> {{}}, servers |-> BOOLEAN,
   params |-> ListParams(SortedTagLists, SortedTableLists), sequential |-> FALSE]

Init == InitD(ConcurrentDomain)
Next == NextD(ConcurrentDomain)
Spec == Init /\ [][Next]_vars

\* One caller that awaits every call.
SequentialDomain ==
  [keys |-> Keys, values |-> Values, tableLists |-> TableLists,
   callConfigs |-> {{}}, ctorConfigs |-> {{}}, servers |-> {TRUE},
   params |-> ListParams(SortedTagLists, SortedTableLists), sequential |-> TRUE]

SeqInit == InitD(SequentialDomain)
SeqNext == NextD(SequentialDomain)
SeqSpec == SeqInit /\ [][SeqNext]_vars

\* Construction options and per-call configs that tell the three sources of
\* the TTL apart: per-call ex = MaxEx, constructor ex = MaxEx - 1, fallback 1.
TtlDomain ==
  [keys |-> {AllKeys[1]}, values |-> {AllValues[1]},
   tableLists |-> {<<>>, <<AllTables[1]>>},
   callConfigs |-> OptionalConfigs({MaxEx}, HexModes),
   ctorConfigs |-> OptionalConfigs({MaxEx - 1}, {"", "NX"}),
   servers |-> {TRUE},
   params |-> ListParams({<<>>, <<AllKeys[1]>>}, {<<>>, <<AllTables[1]>>}),
   sequential |-> TRUE]

TtlInit == InitD(TtlDomain)
TtlNext == NextD(TtlDomain)
TtlSpec == TtlInit /\ [][TtlNext]_vars

\* Values of every JSON shape, the empty and falsy ones among them.
FalsyValues == {JsNull, JsNumber("0"), JsString(""), JsArray("")}

ValueDomain ==
  [keys |-> {AllKeys[1]}, values |-> Values \cup FalsyValues,
   tableLists |-> {<<>>, <<AllTables[1]>>},
   callConfigs |-> {{}}, ctorConfigs |-> {{}}, servers |-> {TRUE},
   params |-> ListParams({<<>>, <<AllKeys[1]>>}, {<<>>, <<AllTables[1]>>}),
   sequential |-> TRUE]

ValueInit == InitD(ValueDomain)
ValueNext == NextD(ValueDomain)
ValueSpec == ValueInit /\ [][ValueNext]_vars

\* One caller that awaits every call and passes onMutate every shape of
\* params: single values, arrays, names and Table objects.
MixedDomain ==
  [keys |-> Keys, values |-> {AllValues[1]}, tableLists |-> SortedTableLists,
   callConfigs |-> {{}}, ctorConfigs |-> {{}}, servers |-> {TRUE},
   params |-> MixedParams(SortedTagLists, SortedTableLists), sequential |-> TRUE]

MixedInit == InitD(MixedDomain)
MixedNext == NextD(MixedDomain)
MixedSpec == MixedInit /\ [][MixedNext]_vars

(***************************************************************************)
(* Vocabulary of the properties.                                           *)
(***************************************************************************)
Range(seq) == {seq[i] : i \in DOMAIN seq}

AllParams == ListParams(TagLists, TableLists)
TagsOf(params) == Range(NormalizeTags(params.tags))
TablesOf(params) ==
  {tableName(t) : t \in Range(NormalizeTables(params.tables))}

\* The step in which the put of caller c settles.
PutSettles(c) == call[c].op = "put" /\ call'[c].op = "none"

\* A step of the batch of a put of key k.
PutStepOf(k) == \E c \in Clients : call[c].key = k /\ Execute(c)

InvalidateStep == \E params \in AllParams : OnMutate(params)

GetByTables(h, k, T) == RedisCache_get(h, k, T, FALSE, TRUE)
GetByTag(h, t) == RedisCache_get(h, t, <<>>, TRUE, TRUE)
GetOf(h, k, T) == RedisCache_get(h, k, T, FALSE, Len(T) # 0)

NaiKey == addPrefix(nonAutoInvalidateTablePrefix)
TagsKey == addPrefix(tagsMapKey)
HashAt(h, key) == IF key \in DOMAIN h THEN h[key] ELSE Empty

\* The precedence of the TTL as documented: per call, constructor, 1.
ExpectedSeconds(config, ctorConfig) ==
  IF config # {} /\ TheOne(config).ex # {} THEN TheOne(TheOne(config).ex)
  ELSE IF ctorConfig # {} /\ TheOne(ctorConfig).ex # {} THEN TheOne(TheOne(ctorConfig).ex)
  ELSE 1

\* The hash get addresses, if any.
AddressedHash(h, key, tables, isTag, isAutoInvalidate) ==
  IF ~isAutoInvalidate THEN {NaiKey}
  ELSE IF isTag THEN HGET(h, TagsKey, key)
  ELSE {getCompositeKey(tables)}

\* The keyspace with every hash but `key` removed.
OnlyHash(h, key) == [k \in DOMAIN h \cap {key} |-> h[k]]

\* params with every single value put into a one-element array and every
\* Table object replaced by its name.
Listed(params) ==
  [tags |-> IF params.tags.shape = "single" THEN Array(params.tags.items)
            ELSE params.tags,
   tables |-> IF params.tables.shape = "undefined" THEN params.tables
              ELSE Array([i \in DOMAIN params.tables.items |->
                            ByName(params.tables.items[i].name)])]

\* Every group hash: the composite groups and the non-auto-invalidate group.
GroupKeys == {NaiKey} \cup {getCompositeKey(T) : T \in TableLists \ {<<>>}}
GroupsHolding(h, k) == {g \in GroupKeys : HasField(h, g, k)}

\* A get by any caller.
GetStep ==
  \E key \in Keys, tables \in TableLists, isTag \in BOOLEAN, isAuto \in BOOLEAN :
    Get(key, tables, isTag, isAuto)

\* The server has applied some and not all of the writes (HSET, SADD) of the
\* batch of c's put.
IsWrite(cmd) == cmd.cmd \in {"HSET", "SADD"}
PartlyWritten(c) ==
  IF ~Pending(c) THEN FALSE
  ELSE LET batch == putPipeline(call[c].key, call[c].response, call[c].tables,
                                call[c].isTag, call[c].config, internalConfig)
           done == Len(batch) - Len(pipeline[c])
       IN /\ \E i \in 1..done : IsWrite(batch[i])
          /\ \E i \in DOMAIN pipeline[c] : IsWrite(pipeline[c][i])

\* What the keyspace h holds under tag t: the value of field t of the hash
\* the tags map names for t, if both exist.
TagValue(h, t) ==
  IF ~HasField(h, TagsKey, t) THEN JsUndefined
  ELSE LET g == h[TagsKey][t].value
       IN IF HasField(h, g, t) THEN JSONparse(h[g][t].value) ELSE JsUndefined

\* The fields a tag invalidation of the tags L removes from the keyspace h:
\* the tags-map field of each tag and the tag's field in the group it maps to.
TagFields(h, L) ==
  {<<TagsKey, t>> : t \in L} \cup
  UNION {{<<g, t>> : g \in HGET(h, TagsKey, t)} : t \in L}

\* The fields of the keyspace h, as pairs <<key, field>>.
FieldsOf(h) == UNION {{<<key, f>> : f \in DOMAIN h[key]} : key \in DOMAIN h}

Users == AllTables[1]
Orders == AllTables[2]
K1 == AllKeys[1]
K2 == AllKeys[2]
V1 == AllValues[1]

(***************************************************************************)
(* C1 Table invalidation cascades.  With every call awaited (SeqSpec):     *)
(* right after invalidate({tables: S}), get(k, T) by tables is not-found   *)
(* for every key k and every non-empty T that shares a table with S, and   *)
(* for every T disjoint from S get(k, T) returns what it returned before.  *)
(***************************************************************************)
C1_TableInvalidationCascades ==
  [][\A params \in AllParams :
       (OnMutate(params) /\ TagsOf(params) = {}) =>
         \A k \in Keys, T \in TableLists :
           /\ (Range(T) \cap TablesOf(params) # {}) =>
                GetByTables(hashes', k, T) = JsUndefined
           /\ (Range(T) \cap TablesOf(params) = {}) =>
                GetOf(hashes', k, T) = GetOf(hashes, k, T)]_vars

\* After put(.., [orders]), put(.., [users, orders]) and
\* invalidate({tables: [users]}): the users index and the orders,users group
\* are gone, the orders group is still there.
C1_Witness ==
  /\ Quiet /\ calls = 3
  /\ addTablePrefix(Users) \notin DOMAIN sets
  /\ addTablePrefix(Orders) \in DOMAIN sets
  /\ getCompositeKey(<<Users, Orders>>) \in sets[addTablePrefix(Orders)]
  /\ getCompositeKey(<<Users, Orders>>) \notin DOMAIN hashes
  /\ getCompositeKey(<<Orders>>) \in DOMAIN hashes
  /\ GetByTables(hashes, K1, <<Orders>>) = V1

(***************************************************************************)
(* C2 Race-free table invalidation.  Under every interleaving of a put's   *)
(* commands with invalidations (Spec): right after invalidate({tables: S}) *)
(* no composite-group hash whose table list shares a table with S exists   *)
(* (whatever it held was written before the invalidation).                 *)
(***************************************************************************)
C2_RaceFreeInvalidation ==
  [][\A params \in AllParams :
       OnMutate(params) =>
         \A T \in TableLists :
           (Range(T) \cap TablesOf(params) # {}) =>
             getCompositeKey(T) \notin DOMAIN hashes']_vars

(***************************************************************************)
(* C3 Tag resolution.  With every call awaited (SeqSpec): when             *)
(* put(t, v, T, isTag = true) with non-empty T settles, get(t, [], true,   *)
(* true) returns v; right after an invalidate whose tags name t that get   *)
(* returns not-found; and it turns from not-found to a value only in a     *)
(* step of a put of t.                                                     *)
(***************************************************************************)
C3_TagResolution ==
  [][/\ \A c \in Clients :
          (PutSettles(c) /\ call[c].isTag /\ call[c].tables # <<>>) =>
            GetByTag(hashes', call[c].key) = call[c].response
     /\ \A params \in AllParams :
          OnMutate(params) =>
            \A t \in TagsOf(params) : GetByTag(hashes', t) = JsUndefined
     /\ \A t \in Keys :
          (GetByTag(hashes, t) = JsUndefined /\ GetByTag(hashes', t) # JsUndefined)
            => PutStepOf(t)]_vars

\* k1 and k2 were put as tags of the users group and the tag k1 was then
\* invalidated: k2 still resolves, k1 no longer does.
C3_Witness ==
  /\ Quiet /\ calls = 3
  /\ GetByTag(hashes, K2) = V1
  /\ GetByTag(hashes, K1) = JsUndefined
  /\ ~HasField(hashes, TagsKey, K1)
  /\ ~HasField(hashes, getCompositeKey(<<Users>>), K1)
  /\ HGET(hashes, TagsKey, K2) = {getCompositeKey(<<Users>>)}

(***************************************************************************)
(* C4 Round trip.  With every call awaited (SeqSpec): when                 *)
(* put(k, v, T, isTag = false) settles, get(k, T, false, T non-empty)      *)
(* returns v; and what that get returns changes only in a step of a put    *)
(* of k, in an invalidation or when a second passes.                       *)
(***************************************************************************)
C4_RoundTrip ==
  [][/\ \A c \in Clients :
          (PutSettles(c) /\ ~call[c].isTag) =>
            GetOf(hashes', call[c].key, call[c].tables) = call[c].response
     /\ \A k \in Keys, T \in TableLists :
          (GetOf(hashes', k, T) # GetOf(hashes, k, T)) =>
            (PutStepOf(k) \/ InvalidateStep \/ Tick)]_vars

\* The second call of the run, a put of k1 under [users], is about to
\* settle and get already returns its value.
C4_Witness ==
  \E c \in Clients :
    /\ call[c].op = "put" /\ ~call[c].isTag /\ calls = 2
    /\ call[c].key = K1 /\ call[c].tables = <<Users>>
    /\ call[c].response = AllValues[2]
    /\ Len(pipeline[c]) = 1
    /\ GetOf(hashes, K1, <<Users>>) = AllValues[2]
    /\ ~HasField(hashes, NaiKey, K1)

(***************************************************************************)
(* C5 Table-list order independence.  With every call awaited (SeqSpec):   *)
(* when put(k, v, T1) with non-empty T1 settles, get(k, T2, false, true)   *)
(* returns v for every reordering T2 of T1, and T1 and T2 have the same    *)
(* composite-group name.                                                   *)
(***************************************************************************)
C5_OrderIndependence ==
  [][\A c \in Clients :
       (PutSettles(c) /\ call[c].tables # <<>>) =>
         \A T2 \in TableLists :
           (Range(T2) = Range(call[c].tables)) =>
             /\ GetByTables(hashes', call[c].key, T2) = call[c].response
             /\ getCompositeKey(T2) = getCompositeKey(call[c].tables)]_vars

\* A put given [users, orders], which is not in sorted order, is about to
\* settle, and get with [orders, users] finds its value.
C5_Witness ==
  \E c \in Clients :
    /\ call[c].op = "put" /\ call[c].tables = <<Users, Orders>>
    /\ Len(pipeline[c]) = 1
    /\ GetByTables(hashes, call[c].key, <<Orders, Users>>) = call[c].response

(***************************************************************************)
(* C6 Non-auto-invalidate isolation.  Under every interleaving (Spec): an  *)
(* invalidate without tags leaves the non-auto-invalidate hash as it was,  *)
(* and a field of that hash disappears only when a second passes (TTL) or  *)
(* in an invalidate whose tags name the field.                             *)
(***************************************************************************)
C6_NonAutoInvalidateIsolation ==
  [][/\ \A params \in AllParams :
          (OnMutate(params) /\ TagsOf(params) = {}) =>
            HashAt(hashes', NaiKey) = HashAt(hashes, NaiKey)
     /\ \A k \in Keys :
          (HasField(hashes, NaiKey, k) /\ ~HasField(hashes', NaiKey, k)) =>
            \/ Tick
            \/ \E params \in AllParams : k \in TagsOf(params) /\ OnMutate(params)]_vars

\* An entry put with no tables is still there after a put under [users,
\* orders] and an invalidate of the table users.
C6_Witness ==
  /\ Quiet /\ calls = 3
  /\ HasField(hashes, NaiKey, K1)
  /\ addTablePrefix(Users) \notin DOMAIN sets
  /\ addTablePrefix(Orders) \in DOMAIN sets
  /\ getCompositeKey(<<Users, Orders>>) \in sets[addTablePrefix(Orders)]
  /\ getCompositeKey(<<Users, Orders>>) \notin DOMAIN hashes

(***************************************************************************)
(* C7 No-op invalidation.  Under every interleaving (Spec): an invalidate  *)
(* whose tables have no membership set and whose tags are not in the tags  *)
(* map (both may be empty or absent) resolves without error and leaves     *)
(* every hash and every set as it was.                                     *)
(***************************************************************************)
C7_NoOpInvalidation ==
  [][\A params \in AllParams :
       (/\ OnMutate(params)
        /\ \A t \in TablesOf(params) : addTablePrefix(t) \notin DOMAIN sets
        /\ \A t \in TagsOf(params) : ~HasField(hashes, TagsKey, t))
       => (hashes' = hashes /\ sets' = sets /\ ret' = JsUndefined)]_vars

\* On a server without field expiry nothing ever expires: an empty store
\* after one settled call is the store after a no-op invalidation.
C7_Witness ==
  /\ ~serverHasHexpire /\ Quiet /\ calls = 1
  /\ hashes = Empty /\ sets = Empty /\ ret = JsUndefined

(***************************************************************************)
(* C8 TTL precedence.  The seconds of every HEXPIRE a put sends are the    *)
(* per-call config's ex when the call gives one, otherwise the ex of the   *)
(* config given to the constructor when it gave one, otherwise 1; and an   *)
(* unconditional HEXPIRE leaves exactly that expiry on the written field   *)
(* (TtlSpec).                                                              *)
(***************************************************************************)
C8_TtlPrecedence ==
  [][\A c \in Clients :
       (Execute(c) /\ Head(pipeline[c]).cmd = "HEXPIRE") =>
         LET cmd == Head(pipeline[c])
             expected == ExpectedSeconds(call[c].config, options)
         IN /\ cmd.seconds = expected
            /\ HasField(hashes', cmd.key, cmd.field)
            /\ cmd.opt = "" => hashes'[cmd.key][cmd.field].ttl = expected
            /\ hashes'[cmd.key][cmd.field].ttl \in {NoExpiry, expected}]_vars

\* A put without a per-call ex, on a cache constructed with ex = MaxEx - 1,
\* has set that expiry on its entry.
C8_Witness ==
  \E c \in Clients :
    /\ call[c].op = "put" /\ call[c].tables = <<Users>>
    /\ call[c].config # {} /\ TheOne(call[c].config).ex = {}
    /\ options # {} /\ TheOne(options).ex = {MaxEx - 1}
    /\ HasField(hashes, getCompositeKey(<<Users>>), call[c].key)
    /\ hashes[getCompositeKey(<<Users>>)][call[c].key].ttl = MaxEx - 1

(***************************************************************************)
(* C9 Failure propagation for put.  When a put settles and the server has  *)
(* answered one of the commands of its batch with an error, the put throws *)
(* (does not return normally).                                             *)
(***************************************************************************)
C9_PutFailurePropagates ==
  [][\A c \in Clients :
       (/\ PutSettles(c)
        /\ \/ \E i \in DOMAIN replies[c] : replies[c][i].err
           \/ ServerError(Head(pipeline[c])))
       => ret' = JsReplyError]_vars

(***************************************************************************)
(* C10 Not-found is a normal result.  In each of the three branches of get *)
(* the result is not-found exactly when the addressed field (or the tag's  *)
(* mapping) is absent, get never throws, and a stored value, the empty and *)
(* falsy ones included, is returned as the value whose serialisation is    *)
(* stored (ValueSpec).                                                     *)
(***************************************************************************)
C10_NotFoundIsDistinct ==
  \A key \in Keys, tables \in TableLists, isTag \in BOOLEAN, isAuto \in BOOLEAN :
    LET r == RedisCache_get(hashes, key, tables, isTag, isAuto)
        at == AddressedHash(hashes, key, tables, isTag, isAuto)
        present == at # {} /\ HasField(hashes, TheOne(at), key)
    IN /\ r.type \notin {"SyntaxError", "ReplyError"}
       /\ (r = JsUndefined) <=> ~present
       /\ present =>
            /\ r \in Values \cup FalsyValues
            /\ JSONstringify(r) = hashes[TheOne(at)][key].value

\* null is stored under the tag k1 in the users group and 0 in the
\* non-auto-invalidate group; each get branch returns the value itself.
C10_Witness ==
  /\ Quiet
  /\ RedisCache_get(hashes, K1, <<>>, FALSE, FALSE) = JsNumber("0")
  /\ RedisCache_get(hashes, K1, <<>>, TRUE, TRUE) = JsNull
  /\ RedisCache_get(hashes, K1, <<Users>>, FALSE, TRUE) = JsNull

(***************************************************************************)
(* C11 get without auto-invalidation.  In every state the put batches and  *)
(* invalidations of concurrent callers reach (Spec): for every key, every  *)
(* table list and both values of isTag, get with isAutoInvalidate false    *)
(* (an omitted flag is undefined, which `!isAutoInvalidate` treats alike)  *)
(* returns the parsed field `key` of the non-auto-invalidate hash, or      *)
(* not-found when that field is absent; it returns the same on the         *)
(* keyspace stripped of every other hash, and it is not-found for a key    *)
(* held only by a composite group.                                         *)
(***************************************************************************)
C11_NonAutoGetReadsReservedGroup ==
  \A key \in Keys, tables \in TableLists, isTag \in BOOLEAN :
    LET r == RedisCache_get(hashes, key, tables, isTag, FALSE)
        stored == HashAt(hashes, NaiKey)
    IN /\ r = IF key \in DOMAIN stored THEN JSONparse(stored[key].value)
              ELSE JsUndefined
       /\ r = RedisCache_get(OnlyHash(hashes, NaiKey), key, <<>>, FALSE, FALSE)
       /\ (key \notin DOMAIN stored) => r = JsUndefined

\* k1 is held by the users group and mapped there as a tag, k2 by the
\* non-auto-invalidate group; a get has just returned a stored value, and
\* get(k1, [users], isTag, false) is not-found for both values of isTag.
C11_Witness ==
  /\ Quiet /\ ret = V1
  /\ HasField(hashes, getCompositeKey(<<Users>>), K1)
  /\ HGET(hashes, TagsKey, K1) = {getCompositeKey(<<Users>>)}
  /\ ~HasField(hashes, NaiKey, K1)
  /\ HasField(hashes, NaiKey, K2)
  /\ RedisCache_get(hashes, K1, <<Users>>, TRUE, FALSE) = JsUndefined
  /\ RedisCache_get(hashes, K1, <<Users>>, FALSE, FALSE) = JsUndefined
  /\ RedisCache_get(hashes, K2, <<Users>>, TRUE, FALSE) = V1

(***************************************************************************)
(* C12 Input normalisation of invalidate.  With every call awaited         *)
(* (MixedSpec): an invalidate given a single tag, a single table or Table  *)
(* objects changes the store, and resolves, exactly as the invalidate      *)
(* given the one-element arrays and the tables' names does.  Tags and      *)
(* table names are non-empty strings.                                      *)
(***************************************************************************)
C12_InputNormalisation ==
  [][\A params \in MixedParams(SortedTagLists, SortedTableLists) :
       OnMutate(params) => OnMutate(Listed(params))]_vars

\* k1 is held as a tag by the users group next to k2, and the orders group
\* holds an entry: the state before invalidate({tags: "k1", tables: users})
\* with the Table object users.
C12_Witness ==
  /\ Quiet /\ calls = 2
  /\ HGET(hashes, TagsKey, K1) = {getCompositeKey(<<Users>>)}
  /\ HasField(hashes, getCompositeKey(<<Users>>), K1)
  /\ getCompositeKey(<<Users>>) \in sets[addTablePrefix(Users)]
  /\ NormalizeTags(Single(K1)) = <<K1>>
  /\ NormalizeTables(Single(TableObject(Users))) = <<TableObject(Users)>>

(***************************************************************************)
(* C13 One group per cache key.  In every reachable state, after any       *)
(* sequence of put and invalidate calls, each cache key is a field of at   *)
(* most one hash among the composite-group hashes and the                  *)
(* non-auto-invalidate hash.                                               *)
(***************************************************************************)
C13_OneGroupPerKey ==
  \A k \in Keys : Cardinality(GroupsHolding(hashes, k)) <= 1

(***************************************************************************)
(* C14 No stale tag pointer.  In every reachable state in which no put is  *)
(* in flight, with every call awaited (SeqSpec): every tag present in the  *)
(* tags map maps to a group hash that holds a field for that tag; a value  *)
(* removed by an invalidation of tags or of tables takes its tags-map      *)
(* entry with it.                                                          *)
(***************************************************************************)
C14_NoStaleTagPointer ==
  Quiet =>
    \A t \in DOMAIN HashAt(hashes, TagsKey) :
      HasField(hashes, hashes[TagsKey][t].value, t)

(***************************************************************************)
(* C15 put is one atomic unit.  Under every interleaving (Spec): while the *)
(* server has applied some and not all of the writes of one put (the value *)
(* into the group hash, the tag into the tags map, the group name into     *)
(* each membership set), no get and no invalidate of another caller is     *)
(* executed.                                                               *)
(***************************************************************************)
C15_PutIsAtomic ==
  [][(\E c \in Clients : PartlyWritten(c)) => ~(GetStep \/ InvalidateStep)]_vars

(***************************************************************************)
(* C16 invalidate is one atomic step.  Under every interleaving with the   *)
(* commands of a put and with gets (Spec): the state right after the step  *)
(* of an invalidate shows its whole effect: no membership set of a given   *)
(* table, no group hash those sets named, no tags-map field of a given     *)
(* tag and no field of that tag in the group it was mapped to; the call    *)
(* resolves; and a membership set disappears in no other step.             *)
(***************************************************************************)
C16_InvalidateIsAtomic ==
  [][/\ \A params \in AllParams :
          OnMutate(params) =>
            LET given == {addTablePrefix(t) : t \in TablesOf(params)}
                named == UNION {sets[k] : k \in given \cap DOMAIN sets}
            IN /\ \A k \in given : k \notin DOMAIN sets'
               /\ \A g \in named : g \notin DOMAIN hashes'
               /\ \A t \in TagsOf(params) :
                    /\ ~HasField(hashes', TagsKey, t)
                    /\ \A g \in HGET(hashes, TagsKey, t) : ~HasField(hashes', g, t)
               /\ ret' = JsUndefined
     /\ (DOMAIN sets \ DOMAIN sets' # {}) => InvalidateStep]_vars

\* A put under [users, orders] has settled and an invalidate of the table
\* users has removed the group and the users membership set (the orders
\* set still names the group); the batch of a later put is being executed.
C16_Witness ==
  \E c \in Clients :
    /\ ~serverHasHexpire /\ calls = 3
    /\ call[c].op = "put" /\ call[c].key = K2 /\ call[c].tables = <<>>
    /\ Len(pipeline[c]) = 1
    /\ DOMAIN hashes = {NaiKey}
    /\ DOMAIN sets = {addTablePrefix(Orders)}
    /\ sets[addTablePrefix(Orders)] = {getCompositeKey(<<Users, Orders>>)}

(***************************************************************************)
(* C17 Tag-based get reads one state.  Under every interleaving with the   *)
(* commands of a put and with invalidations (Spec): a get by tag is one    *)
(* step that changes nothing in the store and returns not-found or the     *)
(* value which the state it is executed in holds under that tag in the     *)
(* group the tags map names, also while a put has written only one of the  *)
(* two.                                                                    *)
(***************************************************************************)
C17_TagGetReadsOneState ==
  [][\A t \in Keys, T \in TableLists :
       Get(t, T, TRUE, TRUE) =>
         /\ ret' = TagValue(hashes, t)
         /\ hashes' = hashes /\ sets' = sets]_vars

\* k1 resolves as a tag to its value in the users group and a get has
\* returned it; the batch of a put of the tag k2 without tables has written
\* the tags-map entry and not yet the value, so k2 is not-found.
C17_Witness ==
  \E c \in Clients :
    /\ call[c].op = "put" /\ call[c].key = K2 /\ call[c].isTag
    /\ call[c].tables = <<>> /\ Len(pipeline[c]) = 3
    /\ HGET(hashes, TagsKey, K2) = {NaiKey}
    /\ ~HasField(hashes, NaiKey, K2)
    /\ GetByTag(hashes, K2) = JsUndefined
    /\ HGET(hashes, TagsKey, K1) = {getCompositeKey(<<Users>>)}
    /\ GetByTag(hashes, K1) = V1
    /\ ret = V1

(***************************************************************************)
(* C18 Tag invalidation is field-scoped.  Under every interleaving (Spec): *)
(* invalidate({tags: L}) without tables removes the tags-map field of each *)
(* tag of L and, for each tag of L the tags map maps to a group G, field   *)
(* t of G; every other field of every hash keeps its value and its expiry, *)
(* and every membership set is left as it was.                             *)
(***************************************************************************)
C18_TagInvalidationIsFieldScoped ==
  [][\A params \in AllParams :
       (OnMutate(params) /\ TablesOf(params) = {}) =>
         /\ FieldsOf(hashes') = FieldsOf(hashes) \ TagFields(hashes, TagsOf(params))
         /\ \A e \in FieldsOf(hashes') : hashes'[e[1]][e[2]] = hashes[e[1]][e[2]]
         /\ sets' = sets
         /\ ret' = JsUndefined]_vars

\* k1 and k2 were put as tags of the users group and the tag k2 was then
\* invalidated: field k1 of the group, its tags-map entry and the users
\* membership set are still there.
C18_Witness ==
  /\ Quiet /\ calls = 3 /\ ~serverHasHexpire
  /\ FieldsOf(hashes) = {<<TagsKey, K1>>, <<getCompositeKey(<<Users>>), K1>>}
  /\ sets = (addTablePrefix(Users) :> {getCompositeKey(<<Users>>)})
  /\ GetByTag(hashes, K1) = V1
  /\ GetByTag(hashes, K2) = JsUndefined

(***************************************************************************)
(* C19 Table invalidation deletes exactly the index and what it names.     *)
(* Under every interleaving (Spec): invalidate({tables: S}) without tags   *)
(* deletes the membership sets of the tables of S and the group hashes     *)
(* those sets name, and nothing else: every other membership set, the tags *)
(* map and the non-auto-invalidate hash are left as they were, also where  *)
(* they name a deleted group; and the call resolves, also when a set of S  *)
(* names a group hash that does not exist.                                 *)
(***************************************************************************)
C19_TableInvalidationFrame ==
  [][\A params \in AllParams :
       (OnMutate(params) /\ TagsOf(params) = {}) =>
         LET given == {addTablePrefix(t) : t \in TablesOf(params)}
             named == UNION {sets[k] : k \in given \cap DOMAIN sets}
         IN /\ hashes' = [k \in DOMAIN hashes \ named |-> hashes[k]]
            /\ sets' = [k \in DOMAIN sets \ given |-> sets[k]]
            /\ named \cap {TagsKey, NaiKey} = {}
            /\ ret' = JsUndefined]_vars

\* After put of the tag k1 under [users, orders], invalidate of users and
\* invalidate of orders: the second invalidate met the name of the group the
\* first had deleted; the tags map still maps k1 to that group.
C19_Witness ==
  /\ Quiet /\ calls = 3 /\ ~serverHasHexpire /\ ret = JsUndefined
  /\ sets = Empty
  /\ DOMAIN hashes = {TagsKey}
  /\ HGET(hashes, TagsKey, K1) = {getCompositeKey(<<Users, Orders>>)}

(***************************************************************************)
(* C20 Index completeness.  In every state in which no put is in flight,   *)
(* after any interleaving of put commands, invalidations and field         *)
(* expiries (Spec): every composite-group hash that exists is a member of  *)
(* the membership set of each table of its table list.                     *)
(***************************************************************************)
C20_IndexComplete ==
  Quiet =>
    \A T \in TableLists \ {<<>>} :
      (getCompositeKey(T) \in DOMAIN hashes) =>
        \A t \in Range(T) :
          /\ addTablePrefix(t) \in DOMAIN sets
          /\ getCompositeKey(T) \in sets[addTablePrefix(t)]

\* The users,orders group exists and both membership sets name it; the
\* users set also names the users group, whose only entry is gone.
C20_Witness ==
  /\ Quiet
  /\ getCompositeKey(<<Users, Orders>>) \in DOMAIN hashes
  /\ getCompositeKey(<<Users>>) \notin DOMAIN hashes
  /\ DOMAIN sets = {addTablePrefix(Users), addTablePrefix(Orders)}
  /\ sets[addTablePrefix(Users)] =
       {getCompositeKey(<<Users>>), getCompositeKey(<<Users, Orders>>)}
  /\ sets[addTablePrefix(Orders)] = {getCompositeKey(<<Users, Orders>>)}

(***************************************************************************)
(* C21 Every entry written by put expires.  With every call awaited on a   *)
(* server that knows HEXPIRE (TtlSpec): when a put settles, all of its     *)
(* commands applied, the value field it wrote and, for a tag, the          *)
(* tags-map field carry a finite expiry, under every hexOptions (none, NX, *)
(* XX, GT, LT) and also when the put overwrites an entry; without that     *)
(* expiry no passing second removes the entry.                             *)
(***************************************************************************)
C21_EveryEntryExpires ==
  [][\A c \in Clients :
       PutSettles(c) =>
         LET key == call[c].key
             group == IF call[c].tables = <<>> THEN NaiKey
                      ELSE getCompositeKey(call[c].tables)
         IN /\ HasField(hashes', group, key)
            /\ hashes'[group][key].ttl # NoExpiry
            /\ call[c].isTag =>
                 /\ HasField(hashes', TagsKey, key)
                 /\ hashes'[TagsKey][key].ttl # NoExpiry]_vars

====
